---------------------------- MODULE Spec2Model ----------------------------
(***************************************************************************)
(* Model of the progressive tax engine (calculateProgressiveTax) of the    *)
(* freelancer tax application.                                             *)
(*                                                                         *)
(* Numbers.  A JavaScript value of the engine is a record                  *)
(*   [k |-> kind, n |-> numerator, d |-> denominator]                      *)
(* with kind "num" (the finite rational n/d in lowest terms, d > 0),       *)
(* "nan", "inf", "ninf" (NaN, +Infinity, -Infinity), "undef" (a field      *)
(* that is absent) or "null".  Finite arithmetic is exact: the rounding    *)
(* of IEEE doubles and the sign of zero are not modelled.                  *)
(*                                                                         *)
(* Filings.  The table tax_filings under its row-level-security policies,  *)
(* and the handlers of TaxFilingsPage and TaxCalculatorPage that read and  *)
(* write it from several browser sessions.                                 *)
(***************************************************************************)
EXTENDS Integers, Sequences, FiniteSets

VARIABLES
  input, result, prev,   \* the calls of calculateProgressiveTax
  tax_filings,           \* the rows of the table public.tax_filings
  nextId,                \* the number of the next row inserted
  now,                   \* the clock
  filings,               \* the filings state of TaxFilingsPage, per session
  toast,                 \* the description of the last toast shown
  pending,               \* whether a fetchFilings is in flight, per session
  transactions,          \* the rows of the table public.transactions
  nextTransactionId,     \* the number of the next transaction inserted
  transactionsState,     \* the transactions state of TransactionsPage, per session
  fetching,              \* whether a fetchTransactions is in flight, per session
  taxYear,               \* formData.taxYear of TaxCalculatorPage
  taxRules,              \* the taxRules state of TaxCalculatorPage
  calculationState,      \* the calculation state of TaxCalculatorPage (<<>> for null)
  requests               \* the fetchTaxRules requests in flight, per tax year asked

engineVars == <<input, result, prev>>

filingVars == <<tax_filings, nextId, now, filings, toast, pending>>

transactionVars ==
  <<transactions, nextTransactionId, transactionsState, fetching>>

calculatorVars == <<taxYear, taxRules, calculationState, requests>>

vars ==
  <<input, result, prev, tax_filings, nextId, now, filings, toast, pending,
    transactions, nextTransactionId, transactionsState, fetching, taxYear, taxRules, calculationState, requests>>

-----------------------------------------------------------------------------
(* JavaScript numbers *)

Abs(i) == IF i < 0 THEN -i ELSE i

RECURSIVE GCD(_, _)
GCD(a, b) == IF b = 0 THEN a ELSE GCD(b, a % b)

Num(n, d) ==
  LET s == IF d < 0 THEN -1 ELSE 1
      g == GCD(Abs(n), Abs(d))
  IN  IF n = 0 THEN [k |-> "num", n |-> 0, d |-> 1]
      ELSE [k |-> "num", n |-> (s * n) \div g, d |-> (s * d) \div g]

Whole(i) == [k |-> "num", n |-> i, d |-> 1]

Zero == Whole(0)

NaN == [k |-> "nan", n |-> 0, d |-> 1]

PosInf == [k |-> "inf", n |-> 0, d |-> 1]

NegInf == [k |-> "ninf", n |-> 0, d |-> 1]

Undefined == [k |-> "undef", n |-> 0, d |-> 1]

Null == [k |-> "null", n |-> 0, d |-> 1]

\* ToNumber: undefined becomes NaN, null becomes 0
ToNumber(x) ==
  CASE x.k = "undef" -> NaN
    [] x.k = "null"  -> Zero
    [] OTHER         -> x

\* -1, 0, 1: the sign of a number that is not NaN
Sign(x) ==
  CASE x.k = "inf"  -> 1
    [] x.k = "ninf" -> -1
    [] OTHER        -> IF x.n > 0 THEN 1 ELSE IF x.n < 0 THEN -1 ELSE 0

Signed(s) == IF s > 0 THEN PosInf ELSE NegInf

JsNeg(x0) ==
  LET x == ToNumber(x0)
  IN  CASE x.k = "num"  -> Num(-x.n, x.d)
        [] x.k = "inf"  -> NegInf
        [] x.k = "ninf" -> PosInf
        [] OTHER        -> NaN

JsAdd(a0, b0) ==
  LET a == ToNumber(a0)
      b == ToNumber(b0)
  IN  CASE a.k = "nan" \/ b.k = "nan"   -> NaN
        [] a.k = "num" /\ b.k = "num"   -> Num(a.n * b.d + b.n * a.d, a.d * b.d)
        [] a.k = "num"                  -> b
        [] b.k = "num"                  -> a
        [] a.k = b.k                    -> a
        [] OTHER                        -> NaN

JsSub(a, b) == JsAdd(a, JsNeg(b))

JsMul(a0, b0) ==
  LET a == ToNumber(a0)
      b == ToNumber(b0)
  IN  CASE a.k = "nan" \/ b.k = "nan"   -> NaN
        [] a.k = "num" /\ b.k = "num"   -> Num(a.n * b.n, a.d * b.d)
        [] Sign(a) = 0 \/ Sign(b) = 0   -> NaN
        [] OTHER                        -> Signed(Sign(a) * Sign(b))

JsDiv(a0, b0) ==
  LET a == ToNumber(a0)
      b == ToNumber(b0)
  IN  CASE a.k = "nan" \/ b.k = "nan"   -> NaN
        [] a.k = "num" /\ b.k = "num"   ->
             IF b.n = 0
             THEN IF a.n = 0 THEN NaN ELSE Signed(Sign(a))
             ELSE Num(a.n * b.d, a.d * b.n)
        [] a.k = "num"                  -> Zero
        [] b.k = "num"                  ->
             IF Sign(b) < 0 THEN Signed(-Sign(a)) ELSE Signed(Sign(a))
        [] OTHER                        -> NaN

\* a < b; false when either side is NaN
JsLt(a0, b0) ==
  LET a == ToNumber(a0)
      b == ToNumber(b0)
  IN  CASE a.k = "nan" \/ b.k = "nan"   -> FALSE
        [] a.k = "num" /\ b.k = "num"   -> a.n * b.d < b.n * a.d
        [] a.k = b.k                    -> FALSE
        [] OTHER                        -> a.k = "ninf" \/ b.k = "inf"

JsGt(a, b) == JsLt(b, a)

\* a <= b; false when either side is NaN
JsLe(a0, b0) ==
  LET a == ToNumber(a0)
      b == ToNumber(b0)
  IN  /\ a.k # "nan"
      /\ b.k # "nan"
      /\ ~JsLt(b, a)

JsGe(a, b) == JsLe(b, a)

MathMin(a0, b0) ==
  LET a == ToNumber(a0)
      b == ToNumber(b0)
  IN  IF a.k = "nan" \/ b.k = "nan" THEN NaN
      ELSE IF JsLt(b, a) THEN b ELSE a

MathMax(a0, b0) ==
  LET a == ToNumber(a0)
      b == ToNumber(b0)
  IN  IF a.k = "nan" \/ b.k = "nan" THEN NaN
      ELSE IF JsLt(a, b) THEN b ELSE a

\* the global isFinite(x)
IsFinite(x) == ToNumber(x).k = "num"

\* falsy numbers: undefined, null, NaN and 0
Truthy(x) == ~(x.k \in {"undef", "null", "nan"} \/ (x.k = "num" /\ x.n = 0))

\* x || dflt
OrElse(x, dflt) == IF Truthy(x) THEN x ELSE dflt

\* x ?? dflt
Nullish(x, dflt) == IF x.k \in {"undef", "null"} THEN dflt ELSE x

Hundred == Whole(100)

-----------------------------------------------------------------------------
(* calculateProgressiveTax *)

\* lines 36-41 with || for ?? at line 40: a cap of 0 counts as no cap
PensionCapOrInfinity(in) ==
  LET pensionRate == JsDiv(OrElse(in.statutoryPensionRatePercent, Zero), Hundred)
      rawPension  == JsMul(OrElse(in.grossIncome, Zero), pensionRate)
  IN  MathMin(IF IsFinite(rawPension) THEN rawPension ELSE Zero,
              OrElse(in.statutoryPensionAnnualCap, PosInf))

\* lines 36-41: the statutory pension, clamped to the annual cap
Pension(in) ==
  LET pensionRate == JsDiv(OrElse(in.statutoryPensionRatePercent, Zero), Hundred)
      rawPension  == JsMul(OrElse(in.grossIncome, Zero), pensionRate)
  IN  MathMin(IF IsFinite(rawPension) THEN rawPension ELSE Zero,
              Nullish(in.statutoryPensionAnnualCap, PosInf))

\* lines 43-46 without Math.max(0, ...)
UncappedDeductionsUnclamped(in, pension) ==
  JsAdd(JsAdd(OrElse(in.standardDeduction, Zero),
              OrElse(in.additionalDeductions, Zero)),
        OrElse(pension, Zero))

\* lines 43-46
UncappedDeductions(in, pension) ==
  MathMax(Zero,
          JsAdd(JsAdd(OrElse(in.standardDeduction, Zero),
                      OrElse(in.additionalDeductions, Zero)),
                OrElse(pension, Zero)))

\* line 47 without Math.min: the deductions are never cut to the income
TotalDeductionsUncut(in, uncappedDeductions) == uncappedDeductions

\* line 47 never below 0: Math.max(0, Math.min(...))
TotalDeductionsNonNegative(in, uncappedDeductions) ==
  MathMax(Zero, MathMin(OrElse(in.grossIncome, Zero), uncappedDeductions))

\* line 47
TotalDeductions(in, uncappedDeductions) ==
  MathMin(OrElse(in.grossIncome, Zero), uncappedDeductions)

\* line 48
TaxableIncome(in, totalDeductions) ==
  MathMax(Zero, JsSub(OrElse(in.grossIncome, Zero), totalDeductions))

\* line 55 with b - a for a - b: the brackets are sorted descending
CompareBracketsDescending(a, b) ==
  JsSub(b.income_bracket_min, a.income_bracket_min)

\* line 55: the comparator of the sort, a.income_bracket_min - b.income_bracket_min
CompareBrackets(a, b) == JsSub(a.income_bracket_min, b.income_bracket_min)

\* b put into the sorted sequence s before the first element that compares
\* greater than b: after every element it ties with (a stable sort)
InsertBracket(s, b) ==
  LET later == {i \in 1..Len(s) : JsLt(CompareBrackets(b, s[i]), Zero)}
      p     == IF later = {} THEN Len(s) + 1
               ELSE CHOOSE i \in later : \A j \in later : i <= j
  IN  SubSeq(s, 1, p - 1) \o <<b>> \o SubSeq(s, p, Len(s))

RECURSIVE SortFrom(_, _, _)
SortFrom(sorted, brackets, i) ==
  IF i > Len(brackets) THEN sorted
  ELSE SortFrom(InsertBracket(sorted, brackets[i]), brackets, i + 1)

\* line 55 without the sort: the brackets are taken in the caller's order
SortBracketsUnsorted(brackets) == brackets

\* line 55: [...input.brackets].sort(...), a stable sort of a copy
SortBrackets(brackets) == SortFrom(<<>>, brackets, 1)

\* line 61 with bracketMax - taxableIncome for bracketMax - bracketMin
TaxableAtThisBracketFromIncome(taxableIncome, bracket) ==
  LET bracketMin == bracket.income_bracket_min
      bracketMax == Nullish(bracket.income_bracket_max, PosInf)
  IN  MathMin(JsSub(taxableIncome, bracketMin), JsSub(bracketMax, taxableIncome))

\* line 61 without Math.min: the whole width of the bracket is taxed
TaxableAtThisBracketWidth(taxableIncome, bracket) ==
  JsSub(Nullish(bracket.income_bracket_max, PosInf), bracket.income_bracket_min)

\* line 61
TaxableAtThisBracket(taxableIncome, bracket) ==
  LET bracketMin == bracket.income_bracket_min
      bracketMax == Nullish(bracket.income_bracket_max, PosInf)
  IN  MathMin(JsSub(taxableIncome, bracketMin), JsSub(bracketMax, bracketMin))

\* lines 63 and 70 taking tax_rate for a fraction: no division by 100
TaxAtThisBracketFraction(taxableAtThisBracket, bracket) ==
  JsMul(taxableAtThisBracket, bracket.tax_rate)

\* lines 63 and 70: taxableAtThisBracket * (bracket.tax_rate / 100)
TaxAtThisBracket(taxableAtThisBracket, bracket) ==
  JsMul(taxableAtThisBracket, JsDiv(bracket.tax_rate, Hundred))

\* line 63 with = for +=
AddTaxOverwrite(taxOwed, tax) == tax

\* line 63: taxOwed += ...
AddTax(taxOwed, tax) == JsAdd(taxOwed, tax)

\* line 64 keeping the highest rate seen instead of the last
NextMarginalRateHighest(marginalRate, bracket) ==
  MathMax(marginalRate, bracket.tax_rate)

\* line 64 setting the rate only once: the first bracket touched wins
NextMarginalRateFirst(marginalRate, bracket) ==
  IF marginalRate = Zero THEN bracket.tax_rate ELSE marginalRate

\* line 64 missing: marginalRate stays what it was
NextMarginalRateKept(marginalRate, bracket) == marginalRate

\* line 64: marginalRate = bracket.tax_rate
NextMarginalRate(marginalRate, bracket) == bracket.tax_rate

\* lines 58-73 with >= for > at line 62: an empty slice is recorded too
BracketStepNonNegative(acc, bracket, taxableIncome) ==
  IF JsGt(taxableIncome, bracket.income_bracket_min)
  THEN LET taxableAtThisBracket == TaxableAtThisBracket(taxableIncome, bracket)
       IN  IF JsGe(taxableAtThisBracket, Zero)
           THEN [taxOwed      |-> AddTax(acc.taxOwed,
                                         TaxAtThisBracket(taxableAtThisBracket, bracket)),
                 marginalRate |-> NextMarginalRate(acc.marginalRate, bracket),
                 breakdown    |-> Append(acc.breakdown,
                    [income_bracket_min      |-> bracket.income_bracket_min,
                     income_bracket_max      |-> bracket.income_bracket_max,
                     tax_rate                |-> bracket.tax_rate,
                     taxable_at_this_bracket |-> taxableAtThisBracket,
                     tax_at_this_bracket     |->
                        TaxAtThisBracket(taxableAtThisBracket, bracket)])]
           ELSE acc
  ELSE acc

\* lines 58-73: the body of the loop, on the running taxOwed, marginalRate and
\* breakdown
BracketStep(acc, bracket, taxableIncome) ==
  IF JsGt(taxableIncome, bracket.income_bracket_min)
  THEN LET taxableAtThisBracket == TaxableAtThisBracket(taxableIncome, bracket)
       IN  IF JsGt(taxableAtThisBracket, Zero)
           THEN [taxOwed      |-> AddTax(acc.taxOwed,
                                         TaxAtThisBracket(taxableAtThisBracket, bracket)),
                 marginalRate |-> NextMarginalRate(acc.marginalRate, bracket),
                 breakdown    |-> Append(acc.breakdown,
                    [income_bracket_min      |-> bracket.income_bracket_min,
                     income_bracket_max      |-> bracket.income_bracket_max,
                     tax_rate                |-> bracket.tax_rate,
                     taxable_at_this_bracket |-> taxableAtThisBracket,
                     tax_at_this_bracket     |->
                        TaxAtThisBracket(taxableAtThisBracket, bracket)])]
           ELSE acc
  ELSE acc

RECURSIVE BracketLoop(_, _, _, _)
BracketLoop(acc, sorted, i, taxableIncome) ==
  IF i > Len(sorted) THEN acc
  ELSE BracketLoop(BracketStep(acc, sorted[i], taxableIncome), sorted, i + 1,
                   taxableIncome)

\* line 76 dividing by the taxable income instead of the gross income
EffectiveRateOfTaxableIncome(in, taxOwed) ==
  IF JsGt(in.grossIncome, Zero)
  THEN JsMul(JsDiv(taxOwed,
                   TaxableIncome(in, TotalDeductions(in,
                                       UncappedDeductions(in, Pension(in))))),
             Hundred)
  ELSE Zero

\* line 76
EffectiveRate(in, taxOwed) ==
  IF JsGt(in.grossIncome, Zero)
  THEN JsMul(JsDiv(taxOwed, in.grossIncome), Hundred)
  ELSE Zero

\* line 86 with <= for <
DeductionsCappedOrEqual(totalDeductions, uncappedDeductions) ==
  JsLe(totalDeductions, uncappedDeductions)

\* line 86
DeductionsCapped(totalDeductions, uncappedDeductions) ==
  JsLt(totalDeductions, uncappedDeductions)

\* lines 50-52 with taxOwed, marginalRate and breakdown declared outside the
\* function: a call starts from what the call before it left
StartOfLoopShared ==
  IF result = <<>>
  THEN [taxOwed |-> Zero, marginalRate |-> Zero, breakdown |-> <<>>]
  ELSE [taxOwed      |-> result[1].taxOwed,
        marginalRate |-> result[1].marginalRate,
        breakdown    |-> result[1].breakdown]

\* lines 50-52: taxOwed, marginalRate and breakdown are locals of the call
StartOfLoop == [taxOwed |-> Zero, marginalRate |-> Zero, breakdown |-> <<>>]

\* lines 35-89
calculateProgressiveTax(in) ==
  LET pension            == Pension(in)
      uncappedDeductions == UncappedDeductions(in, pension)
      totalDeductions    == TotalDeductions(in, uncappedDeductions)
      taxableIncome      == TaxableIncome(in, totalDeductions)
      sorted             == SortBrackets(in.brackets)
      acc                == BracketLoop(StartOfLoop, sorted, 1, taxableIncome)
  IN  [deductions         |-> totalDeductions,
       taxableIncome      |-> taxableIncome,
       taxOwed            |-> acc.taxOwed,
       effectiveRate      |-> EffectiveRate(in, acc.taxOwed),
       marginalRate       |-> acc.marginalRate,
       statutoryPension   |-> OrElse(pension, Zero),
       breakdown          |-> acc.breakdown,
       deductionsCapped   |-> DeductionsCapped(totalDeductions, uncappedDeductions),
       uncappedDeductions |-> uncappedDeductions]

\* line 55 sorting input.brackets itself: the caller's list comes back sorted
BracketsSortedInPlace(brackets) == SortBrackets(brackets)

\* line 55: [...input.brackets] is a copy, the caller's list stays as it was
BracketsAfterCall(brackets) == brackets

\* the input object of the caller after the call
InputAfterCall(in) == [in EXCEPT !.brackets = BracketsAfterCall(in.brackets)]

\* what a call that raises leaves its caller with
Error == [error |-> "Error"]

\* a validating engine: a bracket whose income_bracket_max lies below its
\* income_bracket_min is rejected
RaisesOnMalformedBracket(in) ==
  \E i \in 1..Len(in.brackets) :
    JsLt(in.brackets[i].income_bracket_max, in.brackets[i].income_bracket_min)

\* lines 35-89 hold no throw, and arithmetic, comparison, Math.min, Math.max,
\* isFinite, sort, push and the spread of a list raise nothing on any number
Raises(in) == FALSE

\* the outcome of calculateProgressiveTax(in)
Returned(in) == IF Raises(in) THEN Error ELSE calculateProgressiveTax(in)

-----------------------------------------------------------------------------
(* The inputs of a call *)

\* the largest gross income of a call
MaxIncome == 3

\* the largest standard deduction of a call
MaxDeduction == 2

GrossIncomes == {Whole(i) : i \in (-1)..MaxIncome}

StandardDeductions == {Whole(-1), Zero, Whole(MaxDeduction)}

AdditionalDeductions == {Whole(-1), Zero, Whole(1)}

\* statutoryPensionRatePercent: absent, 50 percent, 200 percent
PensionRates == {Undefined, Whole(50), Whole(200)}

\* statutoryPensionAnnualCap: absent, or a cap below, at and above zero
PensionCaps == {Undefined, Whole(-1), Zero, Whole(1)}

Bracket(min, max, rate) ==
  [income_bracket_min |-> min, income_bracket_max |-> max, tax_rate |-> rate]

\* tax_rate is a percent; a negative rate is a number like any other
TaxRates == {Whole(-10), Whole(10), Whole(20)}

Brackets ==
  {Bracket(Whole(min), max, rate) :
     min \in (-1)..2, max \in {Null, Whole(1), Whole(2)}, rate \in TaxRates}

\* the orders of a three-bracket table
Orders3(a, b, c) ==
  {<<a, b, c>>, <<a, c, b>>, <<b, a, c>>, <<b, c, a>>, <<c, a, b>>, <<c, b, a>>}

\* three-bracket tables: a well-formed one, one with a bounded top bracket and
\* one whose upper brackets share their income_bracket_min
ThreeBracketTables ==
  Orders3(Bracket(Zero, Whole(1), Whole(10)), Bracket(Whole(1), Whole(2), Whole(20)),
          Bracket(Whole(2), Null, Whole(10)))
  \cup Orders3(Bracket(Zero, Whole(1), Whole(10)), Bracket(Whole(1), Whole(2), Whole(20)),
               Bracket(Whole(2), Whole(2), Whole(10)))
  \cup Orders3(Bracket(Zero, Whole(1), Whole(10)), Bracket(Whole(1), Whole(2), Whole(20)),
               Bracket(Whole(1), Null, Whole(10)))

\* every table of at most two brackets, and the three-bracket tables
BracketTables ==
  {<<>>} \cup {<<a>> : a \in Brackets} \cup {<<a, b>> : a, b \in Brackets}
  \cup ThreeBracketTables

\* the tables the deduction cases are computed with
FewTables ==
  {<<>>,
   <<Bracket(Zero, Null, Whole(20))>>,
   <<Bracket(Zero, Whole(1), Whole(10)), Bracket(Whole(1), Null, Whole(20))>>}

Input(gross, std, add, rate, cap, brackets) ==
  [grossIncome                 |-> gross,
   additionalDeductions        |-> add,
   standardDeduction           |-> std,
   brackets                    |-> brackets,
   statutoryPensionRatePercent |-> rate,
   statutoryPensionAnnualCap   |-> cap]

\* every combination of the numeric fields, over a few tables
DeductionInputs ==
  {Input(g, s, a, r, c, t) :
     g \in GrossIncomes, s \in StandardDeductions, a \in AdditionalDeductions,
     r \in PensionRates, c \in PensionCaps, t \in FewTables}

\* every table, over the incomes and standard deductions, with no pension
BracketInputs ==
  {Input(g, s, Zero, Undefined, Undefined, t) :
     g \in GrossIncomes, s \in {Zero, Whole(1)}, t \in BracketTables}

Inputs == DeductionInputs \cup BracketInputs

\* a numeric field that is absent or is not a finite number
InvalidNumbers == {Undefined, NaN, PosInf, NegInf}

\* the numeric fields every call coerces with ||
NumericFields ==
  {"grossIncome", "additionalDeductions", "standardDeduction",
   "statutoryPensionRatePercent"}

\* bracket tables that are empty, have a gap, overlap, hold a bracket whose
\* max lies below its min, have no unbounded top bracket, or are well-formed
MalformedTables ==
  {<<>>,
   <<Bracket(Zero, Whole(1), Whole(10)), Bracket(Whole(2), Null, Whole(20))>>,
   <<Bracket(Zero, Whole(2), Whole(10)), Bracket(Whole(1), Null, Whole(20))>>,
   <<Bracket(Whole(2), Whole(1), Whole(10)), Bracket(Zero, Null, Whole(20))>>,
   <<Bracket(Zero, Whole(1), Whole(10)), Bracket(Whole(1), Whole(2), Whole(20))>>,
   <<Bracket(Zero, Whole(1), Whole(10)), Bracket(Whole(1), Null, Whole(20))>>}

\* calls whose numeric fields may each be absent, NaN or infinite
InvalidInputs ==
  {Input(g, s, a, r, c, t) :
     g \in InvalidNumbers \cup {Zero, Whole(MaxIncome)},
     s \in InvalidNumbers \cup {Whole(-1), Whole(MaxDeduction)},
     a \in InvalidNumbers \cup {Whole(-1), Zero},
     r \in InvalidNumbers \cup {Whole(50)},
     c \in {Undefined, Whole(-1)},
     t \in MalformedTables}

\* the number of incomes above the first bracket of the two-bracket table
MaxExcess == 100

\* a two-bracket table: 10 percent up to 10000, 20 percent above
TwoBracketTable ==
  <<Bracket(Zero, Whole(10000), Whole(10)), Bracket(Whole(10000), Null, Whole(20))>>

\* calls on the two-bracket table with an income above 10000, no deductions
\* and a pension rate of zero
TwoBracketInputs ==
  {Input(Whole(10000 + 50 * i), Zero, Zero, Zero, Undefined, TwoBracketTable) :
     i \in 1..MaxExcess}

-----------------------------------------------------------------------------
(* Tax filings.  A row of tax_filings is a record; filed_at is <<>> for     *)
(* null and <<t>> for the time t.  Rows are numbered in the order of their  *)
(* insertion, which is the order of created_at.                             *)

\* the users of auth.users
Users == {"u1", "u2"}

\* browser sessions: two of user u1 and one of user u2
Sessions == {"s1", "s2", "s3"}

\* auth.uid() of a session
UserOf(s) == IF s = "s3" THEN "u2" ELSE "u1"

\* the tax years the form offers
TaxYears == {2023, 2024}

\* the calculations a session can hold when it saves
Calculations ==
  {[total_income |-> 3, total_deductions |-> 1, taxable_income |-> 2,
    calculated_tax |-> 1]}

\* the number of rows ever inserted
MaxFilings == 2

\* the last time of the clock
MaxTime == 2

\* the policies of tax_filings: SELECT, INSERT and UPDATE for auth.uid() =
\* user_id; row level security is enabled and no policy names DELETE, so no
\* row may be deleted
RlsAllows(command, uid, row) ==
  /\ command \in {"SELECT", "INSERT", "UPDATE"}
  /\ uid = row.user_id

\* a table without the constraint UNIQUE(user_id, tax_year)
UniqueViolationNever(rows, row) == FALSE

\* UNIQUE(user_id, tax_year)
UniqueViolation(rows, row) ==
  \E r \in rows : r.user_id = row.user_id /\ r.tax_year = row.tax_year

RECURSIVE NewestFirst(_)
\* .order('created_at', { ascending: false })
NewestFirst(rows) ==
  IF rows = {} THEN <<>>
  ELSE LET r == CHOOSE x \in rows : \A y \in rows : y.id <= x.id
       IN  <<r>> \o NewestFirst(rows \ {r})

\* select * from tax_filings, as the user uid
SelectFilings(uid) ==
  NewestFirst({r \in tax_filings : RlsAllows("SELECT", uid, r)})

\* an update that sets status and leaves filed_at as it was
UpdateFilingStatusOnly(uid, filingId, status, filed_at) ==
  {IF r.id = filingId /\ RlsAllows("UPDATE", uid, r)
   THEN [r EXCEPT !.status = status]
   ELSE r : r \in tax_filings}

\* update tax_filings set status, filed_at where id = filingId, as the user uid
UpdateFiling(uid, filingId, status, filed_at) ==
  {IF r.id = filingId /\ RlsAllows("UPDATE", uid, r)
   THEN [r EXCEPT !.status = status, !.filed_at = filed_at]
   ELSE r : r \in tax_filings}

\* delete from tax_filings where id = filingId, as the user uid
DeleteFiling(uid, filingId) ==
  {r \in tax_filings : ~(r.id = filingId /\ RlsAllows("DELETE", uid, r))}

\* the row saveTaxFiling inserts; status is 'draft' and filed_at defaults to
\* null
NewFiling(uid, year, calculation) ==
  [id               |-> nextId,
   user_id          |-> uid,
   tax_year         |-> year,
   total_income     |-> calculation.total_income,
   total_deductions |-> calculation.total_deductions,
   taxable_income   |-> calculation.taxable_income,
   calculated_tax   |-> calculation.calculated_tax,
   status           |-> "draft",
   filed_at         |-> <<>>]

\* the File and Delete buttons are rendered for the rows of the list whose
\* status is 'draft'
ShowsDraft(s, filingId) ==
  \E i \in 1..Len(filings[s]) :
    filings[s][i].id = filingId /\ filings[s][i].status = "draft"

\* no call of calculateProgressiveTax is under way
EngineIdle ==
  /\ input = Input(Zero, Zero, Zero, Undefined, Undefined, <<>>)
  /\ result = <<>>
  /\ prev = <<>>

\* an empty table; no session has opened TransactionsPage
NoTransactions ==
  /\ transactions = {}
  /\ nextTransactionId = 1
  /\ transactionsState = [s \in Sessions |-> <<>>]
  /\ fetching = [s \in Sessions |-> FALSE]

\* TaxCalculatorPage is not open: the form shows 2024, no rules, no
\* calculation, no request under way
CalculatorClosed ==
  /\ taxYear = 2024
  /\ taxRules = <<>>
  /\ calculationState = <<>>
  /\ requests = [year \in TaxYears |-> 0]

\* an empty table; every session has mounted TaxFilingsPage
NoFilings ==
  /\ tax_filings = {}
  /\ nextId = 1
  /\ now = 0
  /\ filings = [s \in Sessions |-> <<>>]
  /\ toast = ""
  /\ pending = [s \in Sessions |-> TRUE]

InitFilings == EngineIdle /\ NoFilings /\ NoTransactions /\ CalculatorClosed

\* TaxFilingsPage is opened again
Mount(s) ==
  /\ ~pending[s]
  /\ pending' = [pending EXCEPT ![s] = TRUE]
  /\ UNCHANGED <<tax_filings, nextId, now, filings, toast>>
  /\ UNCHANGED <<engineVars, transactionVars, calculatorVars>>

\* fetchFilings: the request in flight is answered
fetchFilings(s) ==
  /\ pending[s]
  /\ pending' = [pending EXCEPT ![s] = FALSE]
  /\ \E error \in BOOLEAN :
       IF error
       THEN /\ toast' = "Failed to fetch tax filings"
            /\ UNCHANGED filings
       ELSE /\ filings' = [filings EXCEPT ![s] = SelectFilings(UserOf(s))]
            /\ UNCHANGED toast
  /\ UNCHANGED <<tax_filings, nextId, now>>
  /\ UNCHANGED <<engineVars, transactionVars, calculatorVars>>

\* handleFile(filingId), from the File button of a row shown as draft
handleFile(s, filingId) ==
  /\ ShowsDraft(s, filingId)
  /\ now < MaxTime
  /\ \E error \in BOOLEAN :
       IF error
       THEN /\ toast' = "Failed to file tax return"
            /\ UNCHANGED <<tax_filings, now, pending>>
       ELSE /\ tax_filings' = UpdateFiling(UserOf(s), filingId, "filed", <<now>>)
            /\ now' = now + 1
            /\ toast' = "Tax filing submitted successfully"
            /\ pending' = [pending EXCEPT ![s] = TRUE]
  /\ UNCHANGED <<nextId, filings>>
  /\ UNCHANGED <<engineVars, transactionVars, calculatorVars>>

\* handleDelete(filingId), from the Delete button of a row shown as draft
handleDelete(s, filingId) ==
  /\ ShowsDraft(s, filingId)
  /\ \E error \in BOOLEAN :
       IF error
       THEN /\ toast' = "Failed to delete tax filing"
            /\ UNCHANGED <<tax_filings, pending>>
       ELSE /\ tax_filings' = DeleteFiling(UserOf(s), filingId)
            /\ toast' = "Tax filing deleted successfully"
            /\ pending' = [pending EXCEPT ![s] = TRUE]
  /\ UNCHANGED <<nextId, now, filings>>
  /\ UNCHANGED <<engineVars, transactionVars, calculatorVars>>

\* saveTaxFiling, with the tax year of the form and the calculation shown
saveTaxFiling(s, year, calculation) ==
  /\ nextId <= MaxFilings
  /\ LET row == NewFiling(UserOf(s), year, calculation)
     IN  \E error \in BOOLEAN :
           IF \/ error
              \/ ~RlsAllows("INSERT", UserOf(s), row)
              \/ UniqueViolation(tax_filings, row)
           THEN /\ toast' = "Failed to save tax filing"
                /\ UNCHANGED <<tax_filings, nextId>>
           ELSE /\ tax_filings' = tax_filings \cup {row}
                /\ nextId' = nextId + 1
                /\ toast' = "Tax calculation saved as draft filing"
  /\ UNCHANGED <<now, filings, pending>>
  /\ UNCHANGED <<engineVars, transactionVars, calculatorVars>>

NextFilings ==
  \/ \E s \in Sessions : Mount(s)
  \/ \E s \in Sessions : fetchFilings(s)
  \/ \E s \in Sessions, filingId \in 1..MaxFilings : handleFile(s, filingId)
  \/ \E s \in Sessions, filingId \in 1..MaxFilings : handleDelete(s, filingId)
  \/ \E s \in Sessions, year \in TaxYears, calculation \in Calculations :
       saveTaxFiling(s, year, calculation)

\* the filings of several sessions
SpecFilings == InitFilings /\ [][NextFilings]_vars

-----------------------------------------------------------------------------
(* Calls.  input is the record the caller passes, result what the last call *)
(* returned (<<>> before the first call) and prev the input and the result  *)
(* of the call before it (<<>> when there is none).                         *)

RECURSIVE Reorderings(_)
Reorderings(s) ==
  IF Len(s) = 0 THEN {<<>>}
  ELSE UNION {{<<s[i]>> \o p :
                 p \in Reorderings(SubSeq(s, 1, i - 1) \o SubSeq(s, i + 1, Len(s)))} :
              i \in 1..Len(s)}

Init ==
  /\ input \in Inputs
  /\ result = <<>>
  /\ prev = <<>>
  /\ NoFilings
  /\ NoTransactions
  /\ CalculatorClosed

\* calculateProgressiveTax(input)
Calculate ==
  /\ result = <<>>
  /\ result' = <<Returned(input)>>
  /\ input' = InputAfterCall(input)
  /\ UNCHANGED prev
  /\ UNCHANGED <<filingVars, transactionVars, calculatorVars>>

\* a second call, with a larger grossIncome and every other field as before
CalculateWithGrossIncome ==
  /\ result # <<>>
  /\ prev = <<>>
  /\ \E g \in {h \in GrossIncomes : JsGt(h, input.grossIncome)} :
       LET in == [input EXCEPT !.grossIncome = g]
       IN  /\ result' = <<Returned(in)>>
           /\ input' = InputAfterCall(in)
  /\ prev' = <<[input |-> input, result |-> result[1]]>>
  /\ UNCHANGED <<filingVars, transactionVars, calculatorVars>>

\* a second call, with the brackets in another order and every other field as
\* before
CalculateWithReorderedBrackets ==
  /\ result # <<>>
  /\ prev = <<>>
  /\ \E p \in Reorderings(input.brackets) \ {input.brackets} :
       LET in == [input EXCEPT !.brackets = p]
       IN  /\ result' = <<Returned(in)>>
           /\ input' = InputAfterCall(in)
  /\ prev' = <<[input |-> input, result |-> result[1]]>>
  /\ UNCHANGED <<filingVars, transactionVars, calculatorVars>>

\* a third call, with the input of the first call again; prev keeps the first
\* call
CalculateAgain ==
  /\ result # <<>>
  /\ prev # <<>>
  /\ prev[1].input # input
  /\ result' = <<Returned(prev[1].input)>>
  /\ input' = InputAfterCall(prev[1].input)
  /\ UNCHANGED prev
  /\ UNCHANGED <<filingVars, transactionVars, calculatorVars>>

Next ==
  \/ Calculate
  \/ CalculateWithGrossIncome
  \/ CalculateWithReorderedBrackets
  \/ CalculateAgain

Spec == Init /\ [][Next]_vars

\* a second call, with one absent or non-finite numeric field replaced by 0 and
\* every other field as before
CalculateWithZero ==
  /\ result # <<>>
  /\ prev = <<>>
  /\ \E f \in {g \in NumericFields : input[g] \in InvalidNumbers} :
       LET in == [input EXCEPT ![f] = Zero]
       IN  /\ result' = <<Returned(in)>>
           /\ input' = InputAfterCall(in)
  /\ prev' = <<[input |-> input, result |-> result[1]]>>
  /\ UNCHANGED <<filingVars, transactionVars, calculatorVars>>

InitInvalid ==
  /\ input \in InvalidInputs
  /\ result = <<>>
  /\ prev = <<>>
  /\ NoFilings
  /\ NoTransactions
  /\ CalculatorClosed

NextInvalid ==
  \/ Calculate
  \/ CalculateWithZero

\* calls with absent and non-finite numeric fields
SpecInvalid == InitInvalid /\ [][NextInvalid]_vars

InitTwoBrackets ==
  /\ input \in TwoBracketInputs
  /\ result = <<>>
  /\ prev = <<>>
  /\ NoFilings
  /\ NoTransactions
  /\ CalculatorClosed

NextTwoBrackets == Calculate

\* calls on the two-bracket table
SpecTwoBrackets == InitTwoBrackets /\ [][NextTwoBrackets]_vars

-----------------------------------------------------------------------------
(* Transactions.  The table public.transactions and the TransactionsPage of  *)
(* each session.  A row keeps the columns id, user_id, amount and            *)
(* transaction_date; a request that fails leaves the table as it is.         *)

\* the most rows ever inserted into transactions
MaxTransactions == 2

Amounts == {1}

TransactionDates == {1, 2}

\* the fields of the form: a category may be missing
TransactionForms ==
  [amount : Amounts, transaction_date : TransactionDates,
   category : {"", "other_expense"}]

\* the rows of a CSV file, all of one date; parseFloat gives 0 or NaN for a
\* row without a usable amount
CsvRows == [amount : {0} \cup Amounts, transaction_date : {1}]

CsvFiles == {<<r>> : r \in CsvRows} \cup {<<r1, r2>> : r1, r2 \in CsvRows}

\* policies that let every user run every command on every row
RlsAllowsTransactionsAnyone(command, uid, row) == TRUE

\* the policies of transactions: SELECT, INSERT, UPDATE and DELETE for
\* auth.uid() = user_id
RlsAllowsTransactions(command, uid, row) ==
  /\ command \in {"SELECT", "INSERT", "UPDATE", "DELETE"}
  /\ uid = row.user_id

\* .order('transaction_date', { ascending: false }): the rows in any order
\* that has later dates first
InDateOrder(rows) ==
  {p \in [1..Cardinality(rows) -> rows] :
     /\ \A i, j \in 1..Cardinality(rows) : i # j => p[i] # p[j]
     /\ \A i, j \in 1..Cardinality(rows) :
          i < j => p[i].transaction_date >= p[j].transaction_date}

\* select * from transactions order by transaction_date desc, as the user uid
SelectTransactions(uid) ==
  InDateOrder({r \in transactions : RlsAllowsTransactions("SELECT", uid, r)})

\* transactionData of handleSubmit, and a mapped row of handleCsvImport
transactionData(uid, form) ==
  [amount           |-> form.amount,
   transaction_date |-> form.transaction_date,
   user_id          |-> uid]

\* the rows inserted for a list of transactionData, numbered from
\* nextTransactionId
NewTransactions(data) ==
  {[id               |-> nextTransactionId + i - 1,
    user_id          |-> data[i].user_id,
    amount           |-> data[i].amount,
    transaction_date |-> data[i].transaction_date] : i \in 1..Len(data)}

\* the insert policy rejects a row
InsertDenied(uid, rows) ==
  \E r \in rows : ~RlsAllowsTransactions("INSERT", uid, r)

\* a row as update ... set transactionData leaves it
WithData(r, data) ==
  [r EXCEPT !.amount = data.amount,
            !.transaction_date = data.transaction_date,
            !.user_id = data.user_id]

\* the rows update ... where id = transactionId may touch, as the user uid
Updatable(uid, transactionId) ==
  {r \in transactions :
     r.id = transactionId /\ RlsAllowsTransactions("UPDATE", uid, r)}

\* the update policy, which has no WITH CHECK and so is checked on the new
\* row too, rejects a row as updated
UpdateDenied(uid, transactionId, data) ==
  \E r \in Updatable(uid, transactionId) :
    ~RlsAllowsTransactions("UPDATE", uid, WithData(r, data))

\* update transactions set transactionData where id = transactionId
UpdateTransaction(uid, transactionId, data) ==
  {IF r \in Updatable(uid, transactionId) THEN WithData(r, data) ELSE r :
     r \in transactions}

\* delete from transactions where id = transactionId, as the user uid
DeleteTransaction(uid, transactionId) ==
  {r \in transactions :
     ~(r.id = transactionId /\ RlsAllowsTransactions("DELETE", uid, r))}

\* the rows of a CSV file that are kept: those with an amount
Mapped(uid, file) ==
  LET Keep(i) == file[i].amount # 0
  IN  IF Len(file) = 2
      THEN (IF Keep(1) THEN <<transactionData(uid, file[1])>> ELSE <<>>)
             \o (IF Keep(2) THEN <<transactionData(uid, file[2])>> ELSE <<>>)
      ELSE (IF Keep(1) THEN <<transactionData(uid, file[1])>> ELSE <<>>)

\* the Delete button is rendered for the rows of the list
ShowsTransaction(s, transactionId) ==
  \E i \in 1..Len(transactionsState[s]) :
    transactionsState[s][i].id = transactionId

\* TransactionsPage is opened: its state is new and a fetch starts
MountTransactions(s) ==
  /\ ~fetching[s]
  /\ transactionsState' = [transactionsState EXCEPT ![s] = <<>>]
  /\ fetching' = [fetching EXCEPT ![s] = TRUE]
  /\ UNCHANGED <<transactions, nextTransactionId>>
  /\ UNCHANGED <<engineVars, filingVars, calculatorVars>>

\* fetchTransactions: the request in flight is answered
fetchTransactions(s) ==
  /\ fetching[s]
  /\ fetching' = [fetching EXCEPT ![s] = FALSE]
  /\ \E error \in BOOLEAN :
       IF error
       THEN /\ toast' = "Failed to fetch transactions"
            /\ UNCHANGED transactionsState
       ELSE /\ \E rows \in SelectTransactions(UserOf(s)) :
                 transactionsState' = [transactionsState EXCEPT ![s] = rows]
            /\ UNCHANGED toast
  /\ UNCHANGED <<transactions, nextTransactionId>>
  /\ UNCHANGED <<tax_filings, nextId, now, filings, pending>>
  /\ UNCHANGED <<engineVars, calculatorVars>>

\* what editingTransaction may hold when the form is submitted: null (<<>>),
\* or a row of the list, set by openEditDialog from its Edit button
Editable(s) ==
  {<<>>} \cup {<<transactionsState[s][i]>> : i \in 1..Len(transactionsState[s])}

\* handleSubmit: an update of the transaction being edited, or an insert;
\* openEditDialog and the submit of its form are one step
handleSubmit(s, form, editingTransaction) ==
  LET data == transactionData(UserOf(s), form)
      Failed ==
        /\ toast' = "Failed to save transaction"
        /\ UNCHANGED <<transactions, nextTransactionId, fetching>>
  IN  /\ IF form.category = ""
         THEN /\ toast' = "Please select a category"
              /\ UNCHANGED <<transactions, nextTransactionId, fetching>>
         ELSE \E error \in BOOLEAN :
                IF editingTransaction # <<>>
                THEN LET transactionId == editingTransaction[1].id
                     IN  IF error \/ UpdateDenied(UserOf(s), transactionId, data)
                         THEN Failed
                         ELSE /\ transactions' =
                                   UpdateTransaction(UserOf(s), transactionId, data)
                              /\ toast' = "Transaction updated successfully"
                              /\ fetching' = [fetching EXCEPT ![s] = TRUE]
                              /\ UNCHANGED nextTransactionId
                ELSE /\ nextTransactionId <= MaxTransactions
                     /\ IF error \/ InsertDenied(UserOf(s), NewTransactions(<<data>>))
                        THEN Failed
                        ELSE /\ transactions' =
                                  transactions \cup NewTransactions(<<data>>)
                             /\ nextTransactionId' = nextTransactionId + 1
                             /\ toast' = "Transaction added successfully"
                             /\ fetching' = [fetching EXCEPT ![s] = TRUE]
      /\ UNCHANGED transactionsState
      /\ UNCHANGED <<tax_filings, nextId, now, filings, pending>>
      /\ UNCHANGED <<engineVars, calculatorVars>>

\* handleDelete(id), from the Delete button of a row of the list
handleDeleteTransaction(s, transactionId) ==
  /\ ShowsTransaction(s, transactionId)
  /\ \E error \in BOOLEAN :
       IF error
       THEN /\ toast' = "Failed to delete transaction"
            /\ UNCHANGED <<transactions, fetching>>
       ELSE /\ transactions' = DeleteTransaction(UserOf(s), transactionId)
            /\ toast' = "Transaction deleted successfully"
            /\ fetching' = [fetching EXCEPT ![s] = TRUE]
  /\ UNCHANGED <<nextTransactionId, transactionsState>>
  /\ UNCHANGED <<tax_filings, nextId, now, filings, pending>>
  /\ UNCHANGED <<engineVars, calculatorVars>>

\* handleCsvImport: one insert of the rows of the file that are kept
handleCsvImport(s, file) ==
  LET mapped == Mapped(UserOf(s), file)
  IN  /\ IF Len(mapped) = 0
         THEN /\ toast' = "No valid rows found"
              /\ UNCHANGED <<transactions, nextTransactionId, fetching>>
         ELSE /\ nextTransactionId + Len(mapped) - 1 <= MaxTransactions
              /\ \E error \in BOOLEAN :
                   IF error \/ InsertDenied(UserOf(s), NewTransactions(mapped))
                   THEN /\ toast' = "Please check your CSV format"
                        /\ UNCHANGED <<transactions, nextTransactionId, fetching>>
                   ELSE /\ transactions' =
                             transactions \cup NewTransactions(mapped)
                        /\ nextTransactionId' = nextTransactionId + Len(mapped)
                        /\ toast' = IF Len(mapped) = 1
                                    THEN "Imported 1 transactions"
                                    ELSE "Imported 2 transactions"
                        /\ fetching' = [fetching EXCEPT ![s] = TRUE]
      /\ UNCHANGED transactionsState
      /\ UNCHANGED <<tax_filings, nextId, now, filings, pending>>
      /\ UNCHANGED <<engineVars, calculatorVars>>

\* one session of each user
OneSessionEach == {"s1", "s3"}

\* no session has opened TaxFilingsPage again or stored a filing
FilingsUntouched ==
  /\ tax_filings = {}
  /\ nextId = 1
  /\ now = 0
  /\ filings = [s \in Sessions |-> <<>>]
  /\ pending = [s \in Sessions |-> TRUE]

\* the two pages of one session of each user.  The tables tax_filings and
\* transactions share no row, column, policy or page state, so a run works on
\* one of the two tables.
NextIsolation ==
  \/ /\ NoTransactions
     /\ \/ \E s \in OneSessionEach : Mount(s)
        \/ \E s \in OneSessionEach : fetchFilings(s)
        \/ \E s \in OneSessionEach, filingId \in 1..MaxFilings :
             handleFile(s, filingId)
        \/ \E s \in OneSessionEach, filingId \in 1..MaxFilings :
             handleDelete(s, filingId)
        \/ \E s \in OneSessionEach, year \in TaxYears, amounts \in Calculations :
             saveTaxFiling(s, year, amounts)
  \/ /\ FilingsUntouched
     /\ \/ \E s \in OneSessionEach : MountTransactions(s)
        \/ \E s \in OneSessionEach : fetchTransactions(s)
        \/ \E s \in OneSessionEach, form \in TransactionForms :
             \E editingTransaction \in Editable(s) :
               handleSubmit(s, form, editingTransaction)
        \/ \E s \in OneSessionEach, transactionId \in 1..MaxTransactions :
             handleDeleteTransaction(s, transactionId)
        \/ \E s \in OneSessionEach, file \in CsvFiles : handleCsvImport(s, file)

\* the transactions and the filings of two users
SpecIsolation == InitFilings /\ [][NextIsolation]_vars

-----------------------------------------------------------------------------
(* TaxCalculatorPage.  The page of one session: the tax year of the form,    *)
(* the rules fetched for it, the calculation shown and the filings saved     *)
(* from it.  A fetchTaxRules request asks for the year the form shows when   *)
(* it starts; the answers arrive in any order.                               *)

\* a row of tax_rules, with the columns the page reads
TaxRule(year, min, max, rate, deduction) ==
  [tax_year           |-> year,
   income_bracket_min |-> min,
   income_bracket_max |-> max,
   tax_rate           |-> rate,
   standard_deduction |-> deduction]

\* the rows the migration inserts for 2024, in the order of
\* income_bracket_min; tax_rate is stored as 0.10, 0.12, ...
TaxRules2024 ==
  <<TaxRule(2024, Whole(0), Whole(11000), Num(10, 100), Whole(14600)),
    TaxRule(2024, Whole(11000), Whole(44725), Num(12, 100), Whole(14600)),
    TaxRule(2024, Whole(44725), Whole(95375), Num(22, 100), Whole(14600)),
    TaxRule(2024, Whole(95375), Whole(182050), Num(24, 100), Whole(14600)),
    TaxRule(2024, Whole(182050), Whole(231250), Num(32, 100), Whole(14600)),
    TaxRule(2024, Whole(231250), Whole(578125), Num(35, 100), Whole(14600)),
    TaxRule(2024, Whole(578125), Null, Num(37, 100), Whole(14600))>>

\* select * from tax_rules where tax_year = year order by income_bracket_min;
\* the table holds the rows of the migration
SelectTaxRules(year) == IF year = 2024 THEN TaxRules2024 ELSE <<>>

\* the most fetchTaxRules requests under way at a time
MaxRequests == 3

\* parseFloat of the gross income field; NaN for an empty field
FormIncomes == {NaN, Whole(30000)}

\* parseFloat of the additional deductions field; NaN for an empty field
FormDeductions == {NaN, Whole(1000)}

\* taxRules[0]?.standard_deduction
FirstStandardDeduction(rules) ==
  IF Len(rules) > 0 THEN rules[1].standard_deduction ELSE Undefined

\* the input calculateTax passes to calculateProgressiveTax
CalculatorInput(grossField, deductionsField, rules) ==
  Input(OrElse(grossField, Zero),
        OrElse(FirstStandardDeduction(rules), Whole(13850)),
        OrElse(deductionsField, Zero),
        Whole(5),
        Undefined,
        rules)

\* the calculation calculateTax stores
CalculationOf(in, res) ==
  [grossIncome          |-> in.grossIncome,
   deductions           |-> res.deductions,
   taxableIncome        |-> res.taxableIncome,
   taxOwed              |-> res.taxOwed,
   effectiveRate        |-> res.effectiveRate,
   marginalRate         |-> res.marginalRate,
   statutoryPension     |-> res.statutoryPension,
   standardDeduction    |-> in.standardDeduction,
   additionalDeductions |-> in.additionalDeductions,
   deductionsCapped     |-> res.deductionsCapped,
   uncappedDeductions   |-> res.uncappedDeductions]

\* the amounts saveTaxFiling takes from the calculation
FilingAmounts(calc) ==
  [total_income     |-> calc.grossIncome,
   total_deductions |-> calc.deductions,
   taxable_income   |-> calc.taxableIncome,
   calculated_tax   |-> calc.taxOwed]

\* the requests under way
InFlight == requests[2023] + requests[2024]

\* TaxCalculatorPage is mounted: both effects have started a fetchTaxRules
\* for 2024
CalculatorMounted ==
  /\ taxYear = 2024
  /\ taxRules = <<>>
  /\ calculationState = <<>>
  /\ requests = [year \in TaxYears |-> IF year = 2024 THEN 2 ELSE 0]

InitCalculator ==
  EngineIdle /\ NoFilings /\ NoTransactions /\ CalculatorMounted

\* the user selects another tax year; the effect on formData.taxYear starts
\* a fetchTaxRules for it
selectTaxYear(year) ==
  /\ year # taxYear
  /\ InFlight < MaxRequests
  /\ taxYear' = year
  /\ requests' = [requests EXCEPT ![year] = @ + 1]
  /\ UNCHANGED <<taxRules, calculationState>>
  /\ UNCHANGED <<engineVars, filingVars, transactionVars>>

\* fetchTaxRules: a request that asked for year is answered
fetchTaxRules(year, error) ==
  /\ requests[year] > 0
  /\ requests' = [requests EXCEPT ![year] = @ - 1]
  /\ IF error
     THEN /\ toast' = "Failed to fetch tax rules"
          /\ UNCHANGED taxRules
     ELSE /\ taxRules' = SelectTaxRules(year)
          /\ UNCHANGED toast
  /\ UNCHANGED <<taxYear, calculationState>>
  /\ UNCHANGED <<tax_filings, nextId, now, filings, pending>>
  /\ UNCHANGED <<engineVars, transactionVars>>

\* calculateTax, from the Calculate Tax button
calculateTax(grossField, deductionsField) ==
  \E in \in {CalculatorInput(grossField, deductionsField, taxRules)} :
    \E res \in {Returned(in)} :
      /\ input' = InputAfterCall(in)
      /\ IF res = Error
         THEN /\ toast' = "Failed to calculate tax"
              /\ UNCHANGED <<result, calculationState>>
         ELSE /\ result' = <<res>>
              /\ calculationState' = <<CalculationOf(in, res)>>
              /\ UNCHANGED toast
      /\ UNCHANGED <<prev, taxYear, taxRules, requests>>
      /\ UNCHANGED <<tax_filings, nextId, now, filings, pending>>
      /\ UNCHANGED transactionVars

\* saveTaxFiling, from the Save as Draft Filing button, which is rendered
\* when there is a calculation
saveShownCalculation ==
  /\ calculationState # <<>>
  /\ saveTaxFiling("s1", taxYear, FilingAmounts(calculationState[1]))

NextCalculator ==
  \/ \E year \in TaxYears : selectTaxYear(year)
  \/ \E year \in TaxYears, error \in BOOLEAN : fetchTaxRules(year, error)
  \/ \E grossField \in FormIncomes, deductionsField \in FormDeductions :
       calculateTax(grossField, deductionsField)
  \/ saveShownCalculation

\* the calculator of one session
SpecCalculator == InitCalculator /\ [][NextCalculator]_vars

-----------------------------------------------------------------------------
(* Properties of a call *)

Called == result # <<>>

\* the result of the last call
Res == result[1]

\* the second of two calls that differ only in grossIncome
OnlyGrossIncomeChanged ==
  /\ prev # <<>>
  /\ input.grossIncome # prev[1].input.grossIncome
  /\ input = [prev[1].input EXCEPT !.grossIncome = input.grossIncome]

\* the second of two calls whose bracket lists are reorderings of each other
OnlyBracketOrderChanged ==
  /\ prev # <<>>
  /\ input.brackets # prev[1].input.brackets
  /\ input.brackets \in Reorderings(prev[1].input.brackets)
  /\ input = [prev[1].input EXCEPT !.brackets = input.brackets]

\* C1: after every call, taxableIncome >= 0 and deductions <= grossIncome.
C1_DeductionsWithinIncome ==
  Called =>
    /\ JsGe(Res.taxableIncome, Zero)
    /\ JsLe(Res.deductions, input.grossIncome)

\* C1 happens: a call with negative deduction fields whose deductions
\* nevertheless exceeded a positive income and were cut to it
C1_Witness ==
  /\ Called
  /\ JsGt(input.grossIncome, Zero)
  /\ JsLt(input.additionalDeductions, Zero)
  /\ JsGt(Res.uncappedDeductions, input.grossIncome)
  /\ Res.deductions = input.grossIncome
  /\ Res.taxableIncome = Zero

\* C2: after every call, deductionsCapped is true exactly when
\* uncappedDeductions > grossIncome, which is exactly when
\* deductions < uncappedDeductions.
C2_CappedIffExceedsIncome ==
  Called =>
    /\ Res.deductionsCapped <=> JsGt(Res.uncappedDeductions, input.grossIncome)
    /\ JsGt(Res.uncappedDeductions, input.grossIncome)
         <=> JsLt(Res.deductions, Res.uncappedDeductions)

\* C2 happens: a call that capped the deductions
C2_Witness ==
  /\ Called
  /\ Res.deductionsCapped
  /\ JsGt(input.grossIncome, Zero)
  /\ JsGt(Res.uncappedDeductions, input.grossIncome)

RateOf(x) == OrElse(x, Zero)

\* every tax_rate of the table is >= 0
NoNegativeTaxRate(in) ==
  \A i \in 1..Len(in.brackets) : JsGe(in.brackets[i].tax_rate, Zero)

\* the statutory pension takes at most the whole income
PensionRateAtMost100(in) == JsLe(RateOf(in.statutoryPensionRatePercent), Hundred)

\* C3 as stated: of two calls that differ only in grossIncome, the one with
\* the larger grossIncome never has the smaller taxOwed.
C3_Original_GrossIncomeMonotone ==
  (OnlyGrossIncomeChanged /\ JsLe(prev[1].input.grossIncome, input.grossIncome))
    => JsLe(prev[1].result.taxOwed, Res.taxOwed)

\* C3, amended: of two calls that differ only in grossIncome, whose brackets
\* have no negative tax_rate and whose pension rate is at most 100 percent,
\* the one with the larger grossIncome never has the smaller taxOwed.
C3_GrossIncomeMonotone ==
  (/\ OnlyGrossIncomeChanged
   /\ JsLe(prev[1].input.grossIncome, input.grossIncome)
   /\ NoNegativeTaxRate(input)
   /\ PensionRateAtMost100(input))
    => JsLe(prev[1].result.taxOwed, Res.taxOwed)

\* C3 happens: a larger income, with a pension deducted from it, raised the
\* tax of a table of two brackets that both contribute
C3_Witness ==
  /\ OnlyGrossIncomeChanged
  /\ JsLt(prev[1].input.grossIncome, input.grossIncome)
  /\ NoNegativeTaxRate(input)
  /\ PensionRateAtMost100(input)
  /\ JsGt(Res.statutoryPension, Zero)
  /\ Len(Res.breakdown) = 2
  /\ JsGt(prev[1].result.taxOwed, Zero)
  /\ JsLt(prev[1].result.taxOwed, Res.taxOwed)

RECURSIVE SumOfTaxes(_, _)
\* tax_at_this_bracket of the entries i.. of a breakdown, added up
SumOfTaxes(breakdown, i) ==
  IF i > Len(breakdown) THEN Zero
  ELSE JsAdd(breakdown[i].tax_at_this_bracket, SumOfTaxes(breakdown, i + 1))

\* C4: after every call, the tax_at_this_bracket of the breakdown entries add
\* up to taxOwed, and both are 0 when the breakdown is empty.
C4_BreakdownSumsToTaxOwed ==
  Called =>
    /\ SumOfTaxes(Res.breakdown, 1) = Res.taxOwed
    /\ Res.breakdown = <<>> => Res.taxOwed = Zero

\* C4 happens: a call whose breakdown has three entries with different taxes
C4_Witness ==
  /\ Called
  /\ Len(Res.breakdown) = 3
  /\ Res.breakdown[1].tax_at_this_bracket # Res.breakdown[2].tax_at_this_bracket
  /\ JsGt(Res.taxOwed, Res.breakdown[3].tax_at_this_bracket)

\* two bracket lists in which no two brackets share an income_bracket_min
DistinctMins(brackets) ==
  \A i, j \in 1..Len(brackets) :
    i # j => brackets[i].income_bracket_min # brackets[j].income_bracket_min

\* C5 as stated: two calls whose bracket lists are reorderings of each other,
\* all other inputs equal, return the same taxOwed, marginalRate,
\* effectiveRate, deductions, taxableIncome and breakdown sequence.
C5_Original_ReorderingInvariance ==
  OnlyBracketOrderChanged =>
    /\ Res.taxOwed = prev[1].result.taxOwed
    /\ Res.marginalRate = prev[1].result.marginalRate
    /\ Res.effectiveRate = prev[1].result.effectiveRate
    /\ Res.deductions = prev[1].result.deductions
    /\ Res.taxableIncome = prev[1].result.taxableIncome
    /\ Res.breakdown = prev[1].result.breakdown

\* C5, amended: two calls whose bracket lists are reorderings of each other,
\* all other inputs equal, return the same taxOwed, effectiveRate, deductions
\* and taxableIncome; when no two brackets share an income_bracket_min they
\* also return the same marginalRate and the same breakdown sequence.
C5_ReorderingInvariance ==
  OnlyBracketOrderChanged =>
    /\ Res.taxOwed = prev[1].result.taxOwed
    /\ Res.effectiveRate = prev[1].result.effectiveRate
    /\ Res.deductions = prev[1].result.deductions
    /\ Res.taxableIncome = prev[1].result.taxableIncome
    /\ DistinctMins(input.brackets) =>
         /\ Res.marginalRate = prev[1].result.marginalRate
         /\ Res.breakdown = prev[1].result.breakdown

\* C5 happens: a table of overlapping brackets with different
\* income_bracket_min was given in descending and then in another order, and
\* both brackets contributed
C5_Witness ==
  /\ OnlyBracketOrderChanged
  /\ DistinctMins(input.brackets)
  /\ Len(Res.breakdown) >= 2
  /\ JsGt(prev[1].input.brackets[1].income_bracket_min,
          prev[1].input.brackets[2].income_bracket_min)
  /\ JsGt(Res.breakdown[1].taxable_at_this_bracket,
          Res.breakdown[2].taxable_at_this_bracket)
  /\ Res.breakdown[1].income_bracket_max = Null

\* C6: after every call with grossIncome <= 0, whatever the brackets, taxOwed
\* is 0 and effectiveRate is 0.
C6_NoIncomeNoTax ==
  (Called /\ JsLe(input.grossIncome, Zero)) =>
    /\ Res.taxOwed = Zero
    /\ Res.effectiveRate = Zero

\* C7: after every call with grossIncome = 0, deductions is 0 and the
\* breakdown is empty.
C7_ZeroIncomeEmptyBreakdown ==
  (Called /\ input.grossIncome = Zero) =>
    /\ Res.deductions = Zero
    /\ Res.breakdown = <<>>

\* the bracket has income below taxableIncome and a positive width, so that
\* min(taxableIncome - min, max - min) > 0
ReceivesSlice(bracket, taxableIncome) ==
  /\ JsLt(bracket.income_bracket_min, taxableIncome)
  /\ \/ bracket.income_bracket_max = Null
     \/ JsLt(bracket.income_bracket_min, bracket.income_bracket_max)

\* the bracket a breakdown entry was made from
BracketOf(entry) ==
  Bracket(entry.income_bracket_min, entry.income_bracket_max, entry.tax_rate)

\* C8: after every call, marginalRate is the tax_rate of the last entry of
\* the breakdown, which is made from a bracket of the input that received a
\* positive slice and whose income_bracket_min no other such bracket exceeds;
\* it is 0 when no bracket received a positive slice.
C8_MarginalRateOfLastSlice ==
  Called =>
    LET sliced == {i \in 1..Len(input.brackets) :
                     ReceivesSlice(input.brackets[i], Res.taxableIncome)}
    IN  IF sliced = {}
        THEN Res.marginalRate = Zero /\ Res.breakdown = <<>>
        ELSE /\ Res.breakdown # <<>>
             /\ LET last == Res.breakdown[Len(Res.breakdown)]
                IN  /\ Res.marginalRate = last.tax_rate
                    /\ \E i \in sliced : input.brackets[i] = BracketOf(last)
                    /\ \A j \in sliced :
                         JsLe(input.brackets[j].income_bracket_min,
                              last.income_bracket_min)

\* C8 happens: the brackets came in descending order, two of them with
\* different rates received a slice and the bracket with the highest
\* income_bracket_min received none
C8_Witness ==
  /\ Called
  /\ Len(input.brackets) = 3
  /\ Len(Res.breakdown) = 2
  /\ JsGt(input.brackets[1].income_bracket_min, input.brackets[2].income_bracket_min)
  /\ Res.breakdown[1].tax_rate # Res.breakdown[2].tax_rate
  /\ Res.marginalRate = Res.breakdown[2].tax_rate
  /\ JsGt(input.brackets[1].income_bracket_min, Res.breakdown[2].income_bracket_min)

\* the bracket contains the top slice of taxableIncome:
\* income_bracket_min < taxableIncome <= income_bracket_max
ContainsTopSlice(bracket, taxableIncome) ==
  /\ JsLt(bracket.income_bracket_min, taxableIncome)
  /\ \/ bracket.income_bracket_max = Null
     \/ JsLe(taxableIncome, bracket.income_bracket_max)

\* two brackets share income: the larger min lies below the smaller max
Overlap(a, b) ==
  LET lo == MathMax(a.income_bracket_min, b.income_bracket_min)
      hi == MathMin(Nullish(a.income_bracket_max, PosInf),
                    Nullish(b.income_bracket_max, PosInf))
  IN  JsLt(lo, hi)

NoOverlap(brackets) ==
  \A i, j \in 1..Len(brackets) : i # j => ~Overlap(brackets[i], brackets[j])

\* C9 as stated: whenever taxableIncome > 0, marginalRate is the tax_rate of
\* a bracket that contains the top slice of taxable income, for any table.
C9_Original_MarginalRateOfTopSlice ==
  (Called /\ JsGt(Res.taxableIncome, Zero)) =>
    \E i \in 1..Len(input.brackets) :
      /\ ContainsTopSlice(input.brackets[i], Res.taxableIncome)
      /\ Res.marginalRate = input.brackets[i].tax_rate

\* C9, amended: whenever taxableIncome > 0, the brackets do not overlap and
\* one of them contains the top slice of taxable income, marginalRate is the
\* tax_rate of that bracket.
C9_MarginalRateOfTopSlice ==
  (/\ Called
   /\ JsGt(Res.taxableIncome, Zero)
   /\ NoOverlap(input.brackets)
   /\ \E i \in 1..Len(input.brackets) :
        ContainsTopSlice(input.brackets[i], Res.taxableIncome))
    => \A i \in 1..Len(input.brackets) :
         ContainsTopSlice(input.brackets[i], Res.taxableIncome)
           => Res.marginalRate = input.brackets[i].tax_rate

\* C9 happens: the taxable income reached the second of three brackets that
\* do not overlap, given in another order than ascending
C9_Witness ==
  /\ Called
  /\ JsGt(Res.taxableIncome, Zero)
  /\ Len(input.brackets) = 3
  /\ NoOverlap(input.brackets)
  /\ ContainsTopSlice(input.brackets[1], Res.taxableIncome)
  /\ JsGt(input.brackets[1].income_bracket_min, input.brackets[3].income_bracket_min)
  /\ JsLt(input.brackets[1].income_bracket_min, input.brackets[2].income_bracket_min)
  /\ Len(Res.breakdown) = 2
  /\ Res.marginalRate = input.brackets[1].tax_rate
  /\ Res.marginalRate # input.brackets[3].tax_rate

\* grossIncome * statutoryPensionRatePercent / 100, an absent rate counting 0
RawPension(in) ==
  JsDiv(JsMul(in.grossIncome, RateOf(in.statutoryPensionRatePercent)), Hundred)

CapSupplied(in) == in.statutoryPensionAnnualCap # Undefined

\* the deductions before the cut to the income, with the pension p among them
DeductionsWithPension(in, p) ==
  MathMax(Zero, JsAdd(JsAdd(in.standardDeduction, in.additionalDeductions), p))

\* C10 as stated: with a cap, statutoryPension is min(raw pension, cap) and
\* never exceeds the cap; without a cap it is the raw pension; with the rate
\* absent it is 0; and it is the amount added into uncappedDeductions.
C10_Original_PensionClamped ==
  Called =>
    /\ CapSupplied(input) =>
         /\ Res.statutoryPension = MathMin(RawPension(input),
                                           input.statutoryPensionAnnualCap)
         /\ JsLe(Res.statutoryPension, input.statutoryPensionAnnualCap)
    /\ ~CapSupplied(input) => Res.statutoryPension = RawPension(input)
    /\ input.statutoryPensionRatePercent = Undefined => Res.statutoryPension = Zero
    /\ Res.uncappedDeductions = DeductionsWithPension(input, Res.statutoryPension)

\* C10, amended: with a cap, statutoryPension is min(raw pension, cap) and
\* never exceeds the cap; without a cap it is the raw pension; with the rate
\* absent the raw pension is 0, so that statutoryPension is 0 without a cap
\* and min(0, cap) with one; and it is the amount added into
\* uncappedDeductions.
C10_PensionClamped ==
  Called =>
    /\ CapSupplied(input) =>
         /\ Res.statutoryPension = MathMin(RawPension(input),
                                           input.statutoryPensionAnnualCap)
         /\ JsLe(Res.statutoryPension, input.statutoryPensionAnnualCap)
    /\ ~CapSupplied(input) => Res.statutoryPension = RawPension(input)
    /\ input.statutoryPensionRatePercent = Undefined =>
         Res.statutoryPension =
           IF CapSupplied(input)
           THEN MathMin(Zero, input.statutoryPensionAnnualCap)
           ELSE Zero
    /\ Res.uncappedDeductions = DeductionsWithPension(input, Res.statutoryPension)

\* C10 happens: a raw pension above the cap was clamped to it and added to the
\* deductions
C10_Witness ==
  /\ Called
  /\ CapSupplied(input)
  /\ JsGt(input.statutoryPensionAnnualCap, Zero)
  /\ JsGt(RawPension(input), input.statutoryPensionAnnualCap)
  /\ Res.statutoryPension = input.statutoryPensionAnnualCap
  /\ JsGt(input.standardDeduction, Zero)
  /\ JsGt(Res.uncappedDeductions, input.standardDeduction)


\* the second of two calls, the first with the numeric field f absent or not
\* finite, the second with 0 for it and every other field as before
OnlyZeroed(f) ==
  /\ prev # <<>>
  /\ prev[1].input[f] \in InvalidNumbers
  /\ input = [prev[1].input EXCEPT ![f] = Zero]

\* C11: a call whose grossIncome, additionalDeductions, standardDeduction or
\* statutoryPensionRatePercent is absent, NaN, +Infinity or -Infinity returns
\* the same result as the call with 0 for that field, all else equal.
C11_InvalidFieldCountsAsZero ==
  \A f \in NumericFields : OnlyZeroed(f) => Res = prev[1].result

\* a value of type number, NaN and the infinities among them
IsNumber(x) == x.k \in {"num", "nan", "inf", "ninf"}

\* a complete TaxComputationResult
IsResult(r) ==
  /\ DOMAIN r = {"deductions", "taxableIncome", "taxOwed", "effectiveRate",
                 "marginalRate", "statutoryPension", "breakdown",
                 "deductionsCapped", "uncappedDeductions"}
  /\ \A f \in {"deductions", "taxableIncome", "taxOwed", "effectiveRate",
               "marginalRate", "statutoryPension", "uncappedDeductions"} :
       IsNumber(r[f])
  /\ r.deductionsCapped \in BOOLEAN
  /\ \A i \in 1..Len(r.breakdown) :
       /\ IsNumber(r.breakdown[i].taxable_at_this_bracket)
       /\ IsNumber(r.breakdown[i].tax_at_this_bracket)

C14_TwoBracketExample ==
  (Called /\ input.brackets = TwoBracketTable /\ JsGt(input.grossIncome, Whole(10000))) =>
    LET g    == input.grossIncome
        rest == JsSub(g, Whole(10000))
        top  == JsDiv(JsMul(rest, Whole(20)), Hundred)
    IN  /\ Res.taxableIncome = g
        /\ Res.breakdown =
             <<[income_bracket_min      |-> Zero,
                income_bracket_max      |-> Whole(10000),
                tax_rate                |-> Whole(10),
                taxable_at_this_bracket |-> Whole(10000),
                tax_at_this_bracket     |-> Whole(1000)],
               [income_bracket_min      |-> Whole(10000),
                income_bracket_max      |-> Null,
                tax_rate                |-> Whole(20),
                taxable_at_this_bracket |-> rest,
                tax_at_this_bracket     |-> top]>>
        /\ Res.taxOwed = JsAdd(Whole(1000), top)
        /\ Res.marginalRate = Whole(20)
        /\ g = Whole(15000) =>
             /\ Res.taxOwed = Whole(2000)
             /\ Res.effectiveRate = Num(40, 3)

\* C14 happens: the call with grossIncome 15000
C14_Witness ==
  /\ Called
  /\ input.brackets = TwoBracketTable
  /\ input.grossIncome = Whole(15000)
  /\ Res.taxOwed = Whole(2000)
  /\ Len(Res.breakdown) = 2

\* standardDeduction + additionalDeductions + the pension the call returned
SumOfDeductions(in, r) ==
  JsAdd(JsAdd(in.standardDeduction, in.additionalDeductions), r.statutoryPension)

\* C15: when standardDeduction + additionalDeductions + pension exceeds a
\* grossIncome >= 0, uncappedDeductions is that sum, deductions = grossIncome,
\* deductionsCapped is true, and taxableIncome and taxOwed are 0.
C15_DeductionsAboveIncome ==
  (/\ Called
   /\ JsGe(input.grossIncome, Zero)
   /\ JsGt(SumOfDeductions(input, Res), input.grossIncome)) =>
    /\ Res.uncappedDeductions = SumOfDeductions(input, Res)
    /\ Res.deductions = input.grossIncome
    /\ Res.deductionsCapped
    /\ Res.taxableIncome = Zero
    /\ Res.taxOwed = Zero

\* a field that is absent or NaN counts as 0
OrZero(x) == IF x \in {Undefined, NaN} THEN Zero ELSE x

\* C16: after every call, uncappedDeductions = max(0, standardDeduction +
\* additionalDeductions + pension) with a missing field (absent or NaN)
\* counted as 0, and it is never negative, negative fields and a negative cap
\* included.
C16_UncappedDeductionsClamped ==
  Called =>
    LET sum == JsAdd(JsAdd(OrZero(input.standardDeduction),
                           OrZero(input.additionalDeductions)),
                     Res.statutoryPension)
    IN  /\ Res.uncappedDeductions = (IF JsLt(sum, Zero) THEN Zero ELSE sum)
        /\ ~JsLt(Res.uncappedDeductions, Zero)

\* C16 happens: an absent standardDeduction, a negative additionalDeductions
\* and a pension cut to a negative cap gave uncappedDeductions 0
C16_Witness ==
  /\ Called
  /\ input.standardDeduction = Undefined
  /\ JsLt(input.additionalDeductions, Zero)
  /\ JsLt(input.statutoryPensionAnnualCap, Zero)
  /\ JsLt(Res.statutoryPension, Zero)
  /\ Res.uncappedDeductions = Zero

\* the slice of taxable income inside a bracket: min(T - min, max - min)
SliceOf(bracket, taxableIncome) ==
  LET width == IF bracket.income_bracket_max = Null THEN PosInf
               ELSE JsSub(bracket.income_bracket_max, bracket.income_bracket_min)
      above == JsSub(taxableIncome, bracket.income_bracket_min)
  IN  IF JsLt(width, above) THEN width ELSE above

\* the bracket lies below the taxable income and its slice is positive
HasPositiveSlice(bracket, taxableIncome) ==
  /\ JsGt(taxableIncome, bracket.income_bracket_min)
  /\ JsGt(SliceOf(bracket, taxableIncome), Zero)

\* the breakdown entry of a bracket
EntryOf(bracket, taxableIncome) ==
  [income_bracket_min      |-> bracket.income_bracket_min,
   income_bracket_max      |-> bracket.income_bracket_max,
   tax_rate                |-> bracket.tax_rate,
   taxable_at_this_bracket |-> SliceOf(bracket, taxableIncome),
   tax_at_this_bracket     |->
     JsDiv(JsMul(SliceOf(bracket, taxableIncome), bracket.tax_rate), Hundred)]

\* C17: the breakdown holds exactly one entry for each input bracket with
\* taxableIncome > min and a positive slice s = min(taxableIncome - min,
\* max - min), and no other entry; every entry copies min, max and tax_rate
\* and has taxable_at_this_bracket = s > 0 and tax_at_this_bracket =
\* s * tax_rate / 100; a bracket with max <= min never contributes.
C17_BreakdownEntries ==
  Called =>
    LET T == Res.taxableIncome
        B == input.brackets
        D == Res.breakdown
    IN  /\ \A e \in {D[k] : k \in 1..Len(D)} \cup {EntryOf(B[i], T) : i \in 1..Len(B)} :
             Cardinality({k \in 1..Len(D) : D[k] = e})
               = Cardinality({i \in 1..Len(B) : /\ HasPositiveSlice(B[i], T)
                                                /\ EntryOf(B[i], T) = e})
        /\ \A k \in 1..Len(D) : JsGt(D[k].taxable_at_this_bracket, Zero)
        /\ \A i \in 1..Len(B) :
             (/\ B[i].income_bracket_max # Null
              /\ JsLe(B[i].income_bracket_max, B[i].income_bracket_min)) =>
               \A k \in 1..Len(D) : BracketOf(D[k]) # B[i]

\* C17 happens: of three brackets below the taxable income, the one whose max
\* equals its min left no entry
C17_Witness ==
  /\ Called
  /\ Len(input.brackets) = 3
  /\ Len(Res.breakdown) = 2
  /\ \A i \in 1..3 : JsGt(Res.taxableIncome, input.brackets[i].income_bracket_min)
  /\ \E i \in 1..3 :
       input.brackets[i].income_bracket_max = input.brackets[i].income_bracket_min

\* C18: whenever grossIncome > 0, effectiveRate * grossIncome = taxOwed * 100:
\* the rate is taken over the gross income, not the taxable income.
C18_EffectiveRateOverGrossIncome ==
  (Called /\ JsGt(input.grossIncome, Zero)) =>
    JsMul(Res.effectiveRate, input.grossIncome) = JsMul(Res.taxOwed, Hundred)

\* C18 happens: a call that owed tax on a taxable income below its gross
\* income
C18_Witness ==
  /\ Called
  /\ JsGt(Res.taxOwed, Zero)
  /\ JsGt(Res.taxableIncome, Zero)
  /\ JsLt(Res.taxableIncome, input.grossIncome)
  /\ JsGt(Res.effectiveRate, Zero)


\* C19: a filing whose status is 'filed' is never changed or removed: no
\* handleFile, handleDelete or saveTaxFiling of any session, whatever list
\* that session holds, changes its status, filed_at or amounts or removes it.
C19_FiledIsFinal ==
  [][\A f \in tax_filings : f.status = "filed" => f \in tax_filings']_vars

\* C20: when handleDelete of a draft filing of the session's own user shows
\* 'Tax filing deleted successfully', the filing is no longer stored, and a
\* fetchFilings that is answered lists stored rows only, so not that filing.
C20_DeletedWhenReported ==
  [][/\ \A s \in Sessions, filingId \in 1..MaxFilings :
          (/\ handleDelete(s, filingId)
           /\ toast' = "Tax filing deleted successfully"
           /\ \E r \in tax_filings :
                r.id = filingId /\ r.user_id = UserOf(s) /\ r.status = "draft")
            => \A r \in tax_filings' : r.id # filingId
     /\ \A s \in Sessions :
          (fetchFilings(s) /\ toast' # "Failed to fetch tax filings")
            => \A i \in 1..Len(filings'[s]) : filings'[s][i] \in tax_filings'
    ]_vars


\* C24: after every call with finite numeric fields, deductions +
\* taxableIncome = grossIncome, for a positive, a zero and a negative
\* grossIncome alike.
C24_IncomeSplitExactly ==
  Called => JsAdd(Res.deductions, Res.taxableIncome) = input.grossIncome

\* C24 happens: a negative income, all of it deductions, with deductions
\* that were positive before the cut
C24_Witness ==
  /\ Called
  /\ JsLt(input.grossIncome, Zero)
  /\ JsGt(Res.uncappedDeductions, Zero)
  /\ Res.deductions = input.grossIncome
  /\ Res.taxableIncome = Zero

\* the brackets in an order p that starts at 0, is ascending in
\* income_bracket_min, has each max equal to the next min, and ends with an
\* unbounded bracket
IsChain(p) ==
  /\ Len(p) > 0
  /\ p[1].income_bracket_min = Zero
  /\ \A i \in 1..(Len(p) - 1) :
       /\ p[i].income_bracket_max = p[i + 1].income_bracket_min
       /\ JsLe(p[i].income_bracket_min, p[i + 1].income_bracket_min)
  /\ p[Len(p)].income_bracket_max = Null

\* a well-formed table: contiguous from 0 with an unbounded top bracket
WellFormed(brackets) == \E p \in Reorderings(brackets) : IsChain(p)

RECURSIVE SumOfSlices(_, _)
\* taxable_at_this_bracket of the entries i.. of a breakdown, added up
SumOfSlices(breakdown, i) ==
  IF i > Len(breakdown) THEN Zero
  ELSE JsAdd(breakdown[i].taxable_at_this_bracket, SumOfSlices(breakdown, i + 1))

\* C25: for a well-formed bracket table the taxable_at_this_bracket of the
\* breakdown entries add up to exactly taxableIncome.
C25_SlicesSumToTaxableIncome ==
  (Called /\ WellFormed(input.brackets)) =>
    SumOfSlices(Res.breakdown, 1) = Res.taxableIncome

\* C25 happens: a well-formed table of three brackets, given out of order,
\* each with a slice of the taxable income
C25_Witness ==
  /\ Called
  /\ WellFormed(input.brackets)
  /\ ~IsChain(input.brackets)
  /\ Len(Res.breakdown) = 3
  /\ SumOfSlices(Res.breakdown, 1) = Res.taxableIncome

\* rates in [0, 100] that do not decrease as income_bracket_min grows
RatesNonDecreasing(brackets) ==
  /\ \A i \in 1..Len(brackets) :
       /\ JsGe(brackets[i].tax_rate, Zero)
       /\ JsLe(brackets[i].tax_rate, Hundred)
  /\ \A i, j \in 1..Len(brackets) :
       JsLt(brackets[i].income_bracket_min, brackets[j].income_bracket_min)
         => JsLe(brackets[i].tax_rate, brackets[j].tax_rate)

\* C26: for a well-formed table whose rates lie in [0, 100] and do not
\* decrease with income_bracket_min, every call with grossIncome > 0 has
\* 0 <= taxOwed <= taxableIncome and taxOwed * 100 <= marginalRate *
\* grossIncome.
C26_TaxWithinBounds ==
  (/\ Called
   /\ WellFormed(input.brackets)
   /\ RatesNonDecreasing(input.brackets)
   /\ JsGt(input.grossIncome, Zero)) =>
    /\ JsLe(Zero, Res.taxOwed)
    /\ JsLe(Res.taxOwed, Res.taxableIncome)
    /\ JsLe(JsMul(Res.taxOwed, Hundred), JsMul(Res.marginalRate, input.grossIncome))

\* C26 happens: a well-formed table with rising rates, a taxable income below
\* the gross income, and tax owed in two brackets
C26_Witness ==
  /\ Called
  /\ WellFormed(input.brackets)
  /\ RatesNonDecreasing(input.brackets)
  /\ JsGt(input.grossIncome, Res.taxableIncome)
  /\ Len(Res.breakdown) >= 2
  /\ Res.breakdown[1].tax_rate # Res.breakdown[2].tax_rate
  /\ JsGt(Res.taxOwed, Zero)
  /\ JsLt(JsMul(Res.taxOwed, Hundred), JsMul(Res.marginalRate, input.grossIncome))

\* the upper end of the income range of a breakdown entry
UpperEnd(entry) == Nullish(entry.income_bracket_max, PosInf)

\* C27: the breakdown is in ascending order of income_bracket_min whatever
\* the order of the input brackets; when the brackets do not overlap, the
\* ranges of consecutive entries do not overlap and every entry but the last
\* covers the full width of its bracket.
C27_BreakdownAscending ==
  Called =>
    LET D == Res.breakdown
    IN  /\ \A k \in 1..(Len(D) - 1) :
             JsLe(D[k].income_bracket_min, D[k + 1].income_bracket_min)
        /\ NoOverlap(input.brackets) =>
             \A k \in 1..(Len(D) - 1) :
               /\ JsLe(UpperEnd(D[k]), D[k + 1].income_bracket_min)
               /\ D[k].taxable_at_this_bracket
                    = JsSub(D[k].income_bracket_max, D[k].income_bracket_min)

\* C27 happens: three brackets that do not overlap, given in descending
\* order, each with an entry, the last entry not full
C27_Witness ==
  /\ Called
  /\ NoOverlap(input.brackets)
  /\ Len(input.brackets) = 3
  /\ Len(Res.breakdown) = 3
  /\ JsGt(input.brackets[1].income_bracket_min, input.brackets[3].income_bracket_min)
  /\ JsLt(Res.breakdown[1].income_bracket_min, Res.breakdown[3].income_bracket_min)


\* the user uid has a filing for the tax year
HasFiling(uid, year) ==
  \E r \in tax_filings : r.user_id = uid /\ r.tax_year = year

\* C21: there is never more than one tax_filings row for a user and a tax
\* year, and a saveTaxFiling for a user and year that have a filing shows
\* 'Failed to save tax filing' and leaves every stored filing as it was.
C21_OneFilingPerUserAndYear ==
  /\ [](\A r1, r2 \in tax_filings :
          (r1.user_id = r2.user_id /\ r1.tax_year = r2.tax_year) => r1 = r2)
  /\ [][\A s \in Sessions, year \in TaxYears, calculation \in Calculations :
          (saveTaxFiling(s, year, calculation) /\ HasFiling(UserOf(s), year))
            => (toast' = "Failed to save tax filing" /\ tax_filings' = tax_filings)
       ]_vars

\* C21 happens: a save failed after the only stored filing was filed, and
\* that filing is still there as it was filed
C21_Witness ==
  /\ toast = "Failed to save tax filing"
  /\ Cardinality(tax_filings) = 1
  /\ \E r \in tax_filings : r.status = "filed" /\ r.user_id = "u1"
  /\ nextId = 2

\* C23: a stored filing has filed_at set exactly when its status is 'filed';
\* a filing that is inserted is a draft with filed_at null, and no step turns
\* a filed filing into a draft.
C23_FilingLifecycle ==
  /\ [](\A r \in tax_filings : (r.filed_at # <<>>) <=> (r.status = "filed"))
  /\ [][/\ \A r \in tax_filings' :
             (\A q \in tax_filings : q.id # r.id)
               => (r.status = "draft" /\ r.filed_at = <<>>)
        /\ \A q \in tax_filings, r \in tax_filings' :
             (q.id = r.id /\ q.status = "filed") => r.status = "filed"
       ]_vars

\* C23 happens: one filing was filed, another is a draft
C23_Witness ==
  /\ \E r \in tax_filings : r.status = "filed" /\ r.filed_at # <<>>
  /\ \E r \in tax_filings : r.status = "draft" /\ r.filed_at = <<>>
  /\ toast = "Tax filing submitted successfully"


\* the session s changes the table transactions in this step
WritesTransactions(s) ==
  \/ \E form \in TransactionForms, editingTransaction \in Editable(s) :
       handleSubmit(s, form, editingTransaction)
  \/ \E transactionId \in 1..MaxTransactions :
       handleDeleteTransaction(s, transactionId)
  \/ \E file \in CsvFiles : handleCsvImport(s, file)

\* the session s changes the table tax_filings in this step
WritesFilings(s) ==
  \/ \E filingId \in 1..MaxFilings : handleFile(s, filingId)
  \/ \E filingId \in 1..MaxFilings : handleDelete(s, filingId)
  \/ \E year \in TaxYears, amounts \in Calculations :
       saveTaxFiling(s, year, amounts)

\* the rows of other users than uid are in the table after the step as they
\* were before it, and every row that is new or changed belongs to uid
OnlyRowsOf(uid, before, after) ==
  /\ \A r \in before : r.user_id # uid => r \in after
  /\ \A r \in after : r.user_id # uid => r \in before

\* C22: the transactions and the filings a session lists all belong to the
\* session's user, and a step of handleSubmit, handleDelete, handleCsvImport,
\* handleFile or saveTaxFiling by a session leaves every row of every other
\* user as it was and adds no row for another user.
C22_RowIsolation ==
  /\ [](\A s \in Sessions :
          /\ \A i \in 1..Len(transactionsState[s]) :
               transactionsState[s][i].user_id = UserOf(s)
          /\ \A i \in 1..Len(filings[s]) : filings[s][i].user_id = UserOf(s))
  /\ [][/\ transactions' # transactions
             => \A s \in Sessions :
                  WritesTransactions(s)
                    => OnlyRowsOf(UserOf(s), transactions, transactions')
        /\ tax_filings' # tax_filings
             => \A s \in Sessions :
                  WritesFilings(s)
                    => OnlyRowsOf(UserOf(s), tax_filings, tax_filings')
       ]_vars

\* C22 happens: both users have stored a transaction, one of them has
\* updated or deleted a row, and each lists a row of its own
C22_Witness ==
  /\ \A uid \in Users : \E r \in transactions : r.user_id = uid
  /\ toast \in {"Transaction updated successfully",
                "Transaction deleted successfully"}
  /\ \A s \in OneSessionEach : Len(transactionsState[s]) > 0


\* the percentages the rows of TaxRules2024 stand for
SeededPercent == <<10, 12, 22, 24, 32, 35, 37>>

\* C28: in a call with the tax rules seeded for 2024, every slice is taxed at
\* the percentage its row stands for: the slice of the 0-11000 bracket at 10
\* percent, the next at 12 percent, and so on.
C28_SeededBracketsTaxedAtTheirPercent ==
  (Called /\ input.brackets = TaxRules2024) =>
    \A i \in 1..Len(Res.breakdown), j \in 1..Len(TaxRules2024) :
      Res.breakdown[i].income_bracket_min = TaxRules2024[j].income_bracket_min
        => Res.breakdown[i].tax_at_this_bracket =
             JsDiv(JsMul(Res.breakdown[i].taxable_at_this_bracket,
                         Whole(SeededPercent[j])),
                   Hundred)

\* the amounts of the calculations the form can give with the rules of each
\* tax year
OwnYearAmounts ==
  [year \in TaxYears |->
     {FilingAmounts(CalculationOf(in, calculateProgressiveTax(in))) :
        in \in {CalculatorInput(grossField, deductionsField, SelectTaxRules(year)) :
                  grossField \in FormIncomes, deductionsField \in FormDeductions}}]

\* C29: the amounts of every stored filing are those of a calculation made
\* with the tax rules of the filing's tax_year.
C29_AmountsOfOwnTaxYear ==
  \A r \in tax_filings :
    [total_income     |-> r.total_income,
     total_deductions |-> r.total_deductions,
     taxable_income   |-> r.taxable_income,
     calculated_tax   |-> r.calculated_tax] \in OwnYearAmounts[r.tax_year]

\* C30: when a fetchTaxRules request is answered without an error and no
\* request is left under way, taxRules holds the rules of the tax year the
\* form shows.
C30_RulesOfSelectedYear ==
  [][\A year \in TaxYears :
       (fetchTaxRules(year, FALSE) /\ InFlight' = 0)
         => taxRules' = SelectTaxRules(taxYear')
    ]_vars

=============================================================================
